---------------------------- MODULE Spec2Model ----------------------------
(***************************************************************************)
(* gh-langs (src/main.go): one run of main().                              *)
(*                                                                         *)
(* main resolves the account, lists its repositories page by page,         *)
(* optionally filters them by last update, starts one goroutine per        *)
(* repository that fetches its language breakdown and appends it to a      *)
(* shared slice, waits for all of them, sums the breakdowns and prints a   *)
(* table.                                                                  *)
(*                                                                         *)
(* The REST server, the gh identity lookup, the clock and the scheduler    *)
(* are the environment: the server's listing and the clock are drawn in    *)
(* Init, the outcome of each request is drawn when the request is made.    *)
(* Instants are day numbers of the proleptic Gregorian calendar (AddDate   *)
(* keeps the time of day, so two instants compare as their days do).       *)
(* Flag parsing and the help flag (main.go 27-36) and the spinner are not  *)
(* modelled.                                                               *)
(***************************************************************************)
EXTENDS Integers, Sequences, FiniteSets, TLC

\* ------------------------------------------------------------------ bounds
MaxPages == 2        \* pages the whole-run server lists before it runs dry
MaxPageLen == 2      \* items on one page of the whole-run server
MaxRepos == 3        \* repositories the whole-run server lists in all
MaxListPages == 4    \* pages of the listing-only server
MaxFilterVal == 150  \* largest |filter value|, in hundredths of a year
MaxList == 3         \* breakdowns in a LanguagesList of the table-only runs
MaxFilterRepos == 2  \* repositories of the filter-only runs
MaxFixedRepos == 2   \* repositories of the runs against fixed answers

\* ------------------------------------------------------------- arithmetic
Abs(x) == IF x < 0 THEN -x ELSE x

\* A quotient rounded toward minus infinity.
GoDiv_floor(a, b) == a \div b

\* Go's integer division and remainder truncate toward zero (b > 0 here).
GoDiv(a, b) == IF a >= 0 THEN a \div b ELSE -((-a) \div b)

GoMod(a, b) == a - b * GoDiv(a, b)

RECURSIVE SumSeq(_)
SumSeq(s) == IF s = <<>> THEN 0 ELSE Head(s) + SumSeq(Tail(s))

RECURSIVE Flatten(_)
Flatten(ss) == IF ss = <<>> THEN <<>> ELSE Head(ss) \o Flatten(Tail(ss))

\* --------------------------------------------------------------- calendar
\* time.Date as AddDate uses it: the month is normalised into the year, the
\* day is added as an offset, so out-of-range months and days roll over.
IsLeap(y) == (y % 4 = 0 /\ y % 100 # 0) \/ y % 400 = 0

DaysBeforeYear(y) ==
    365 * (y - 1) + ((y - 1) \div 4) - ((y - 1) \div 100) + ((y - 1) \div 400)

DaysBeforeMonth(y, m) ==
    LET cum == <<0, 31, 59, 90, 120, 151, 181, 212, 243, 273, 304, 334>>
    IN  cum[m] + (IF m > 2 /\ IsLeap(y) THEN 1 ELSE 0)

DayNumber(y, m, d) ==
    LET yy == y + ((m - 1) \div 12)
        mm == ((m - 1) % 12) + 1
    IN  DaysBeforeYear(yy) + DaysBeforeMonth(yy, mm) + (d - 1)

\* t.AddDate(years, months, days) for the civil date t, as a day number.
AddDate(t, years, months, days) == DayNumber(t.y + years, t.m + months, t.d + days)

\* ------------------------------------------------------------ environment
NoAccount == ""
Accounts == {"octocat"}
Login == "me"     \* what `gh api user --jq .login` prints when it succeeds

\* The clock of the whole run, and the clocks the filter-only runs draw from.
Now0 == [y |-> 2024, m |-> 3, d |-> 31]
Nows == {Now0, [y |-> 2025, m |-> 7, d |-> 15]}

Langs == {"CSS", "Go", "HTML", "Shell"}

\* The languages endpoint's answer for a repository: a map from language
\* name to byte count.
LangA == [l \in {"Go", "HTML"} |-> IF l = "Go" THEN 100 ELSE 20]
LangB == [l \in {"Go", "CSS"} |-> IF l = "Go" THEN 50 ELSE 30]
LangC == [l \in {"HTML", "Shell"} |-> IF l = "HTML" THEN 10 ELSE 0]
LangE == [l \in {} |-> 0]
LangT == [l \in {"CSS", "Shell"} |-> 30]

Breakdowns == {LangA, LangB, LangC, LangE, LangT}

BreakdownOf(name) ==
    CASE name % 3 = 1 -> LangA
      [] name % 3 = 2 -> LangB
      [] OTHER -> LangC

\* The last update of the whole-run server's repositories: a recent one, one
\* exactly a year before the clock, one a hundred days before it.
UpdatedAtOf(name, t) ==
    CASE name % 3 = 1 -> AddDate(t, 0, 0, -10)
      [] name % 3 = 2 -> AddDate(t, -1, 0, 0)
      [] OTHER -> AddDate(t, 0, 0, -100)

Repository(name, t) == [name |-> name, updatedAt |-> UpdatedAtOf(name, t)]

\* The listing of a server whose pages have the given sizes: repositories are
\* named by their place in the listing.
MakePages(sizes, t) ==
    [p \in 1..Len(sizes) |->
        [i \in 1..sizes[p] |-> Repository(SumSeq(SubSeq(sizes, 1, p - 1)) + i, t)]]

SeqsUpTo(S, n) == UNION {[1..k -> S] : k \in 0..n}

MainServers ==
    {s \in SeqsUpTo(0..MaxPageLen, MaxPages) : SumSeq(s) <= MaxRepos}

\* The listing-only server answers with full pages (per_page=100), a partial
\* page or an empty one.
PerPage == 100
ListServers == SeqsUpTo({0, 37, PerPage}, MaxListPages)

\* ------------------------------------------------------------------ state
VARIABLES
    arg,          \* pflag.Arg(0)
    filterVal,    \* --filter, in hundredths of a year
    now,          \* time.Now(), a civil date
    pages,        \* the server's listing, page by page
    env,          \* what is fixed in advance of the answers to the requests
    pc,           \* where main is
    proc,         \* "running", "returned" (main returned), "exited" (os.Exit)
    account,      \* main's account
    identityErr,  \* getGitHubUsername returned an error (main drops it)
    requests,     \* the requests of the sequential phase, in order
    profile,      \* the declared type of the decoded profile ("none": none)
    t,            \* getRepositories' t, the endpoint kind
    page,         \* getRepositories' page
    grRepos,      \* getRepositories' repos
    responses,    \* the pages decoded so far, in order
    repos,        \* main's repos
    err,          \* main's err is not nil
    cf,           \* computeFilter's locals
    filter,       \* main's filter, a day number (0: the zero time)
    spawned,      \* iterations getLanguages' loop has done
    wg,           \* the WaitGroup's counter
    tpc,          \* where each goroutine is
    tdata,        \* each goroutine's data
    tlen,         \* the len each goroutine read from the shared results
    resArr,       \* the backing array of the shared results
    resLen,       \* the len of the shared results
    results,      \* main's results
    languages,    \* main's languages
    out           \* what the run has printed

vars == <<arg, filterVal, now, pages, env, pc, proc, account, identityErr,
          requests, profile, t, page, grRepos, responses, repos, err, cf, filter, spawned, wg,
          tpc, tdata, tlen, resArr, resLen, results, languages, out>>

inputVars == <<arg, filterVal, now, pages, env>>
listVars == <<profile, t, page, grRepos, responses>>
filterVars == <<cf, filter>>
taskVars == <<spawned, wg, tpc, tdata, tlen, resArr, resLen>>

NoCf == [called |-> FALSE, totalDays |-> 0, years |-> 0, months |-> 0, days |-> 0]
NoOut == [notValid |-> FALSE, fatal |-> {}, table |-> FALSE, rows |-> <<>>,
          total |-> 0, summary |-> FALSE, count |-> 0, cutoff |-> FALSE]

Running == proc = "running"

\* The environment may be left open, so that every request can succeed or fail
\* when it is made, or fixed in advance: seq "ok" makes the identity lookup,
\* the client, the profile and every listing page succeed, and langs gives
\* each repository's languages request its fate: "ok", "fail", or "hang" (it
\* never completes).
AnyEnv == [seq |-> "any", langs |-> <<>>]

Answers(all, good) == IF env.seq = "ok" THEN good ELSE all

FateOf(name) == IF name \in DOMAIN env.langs THEN env.langs[name] ELSE "any"

\* The parts of the state as they are at the top of main.
NoListing ==
    /\ requests = <<>>
    /\ profile = "none"
    /\ t = ""
    /\ page = 1
    /\ grRepos = <<>>
    /\ responses = <<>>
    /\ repos = <<>>

NoFilter == cf = NoCf /\ filter = 0

NoTasks ==
    /\ spawned = 0
    /\ wg = 0
    /\ tpc = <<>>
    /\ tdata = <<>>
    /\ tlen = <<>>
    /\ resArr = <<>>
    /\ resLen = 0
    /\ results = <<>>

NoTable == languages = LangE /\ out = NoOut

Started ==
    /\ proc = "running"
    /\ account = arg
    /\ identityErr = FALSE
    /\ err = FALSE

Init ==
    /\ arg \in {NoAccount} \cup Accounts
    /\ filterVal \in {0, 50, 100}
    /\ now = Now0
    /\ \E s \in MainServers : pages = MakePages(s, now)
    /\ env = AnyEnv
    /\ Started /\ NoListing /\ NoFilter /\ NoTasks /\ NoTable
    /\ pc = "getGitHubUsername"

\* ------------------------------------------------- main, lines 41 to 49
\* account := pflag.Arg(0); if account == "" { account, _ = getGitHubUsername() }
main_getGitHubUsername ==
    /\ Running /\ pc = "getGitHubUsername"
    /\ IF arg # NoAccount
       THEN UNCHANGED <<account, identityErr>>
       ELSE \E ok \in Answers(BOOLEAN, {TRUE}) :
              /\ account' = IF ok THEN Login ELSE NoAccount
              /\ identityErr' = ~ok
    /\ pc' = "DefaultRESTClient"
    /\ UNCHANGED <<inputVars, proc, requests, listVars, repos, err, filterVars,
                   taskVars, results, languages, out>>

\* client, err := api.DefaultRESTClient(); if err != nil { return }
main_DefaultRESTClient ==
    /\ Running /\ pc = "DefaultRESTClient"
    /\ \E ok \in Answers(BOOLEAN, {TRUE}) :
         IF ok
         THEN pc' = "findAccountType" /\ UNCHANGED <<proc, err>>
         ELSE pc' = "return" /\ proc' = "returned" /\ err' = TRUE
    /\ UNCHANGED <<inputVars, account, identityErr, requests, listVars, repos,
                   filterVars, taskVars, results, languages, out>>

\* ------------------------------------------ getRepositories, lines 134-169
Request(kind, path, n) == [kind |-> kind, path |-> path, page |-> n]

\* The declared types a profile can carry, and what can go wrong with a request.
ProfileTypes == {"User", "Organization", "Bot"}
Failures == {"request", "decode", "close"}

\* A classification that takes every type but "Organization" for a user.
findAccountType_userOtherwise(type) ==
    IF type = "Organization" THEN "orgs" ELSE "users"

\* findAccountType's result for a decoded profile: the endpoint kind, or ""
\* with an error.
findAccountType(type) ==
    IF type = "User" THEN "users"
    ELSE IF type = "Organization" THEN "orgs"
    ELSE ""

\* A lookup that guesses the user endpoint when the profile cannot be fetched.
AccountKind_guess(o) == IF o \in ProfileTypes THEN findAccountType(o) ELSE "users"

\* findAccountType's first result, lines 111-132: "" beside an error when the
\* request, the decoding or the close fails, else by the declared type.
AccountKind(o) == IF o \in ProfileTypes THEN findAccountType(o) ELSE ""

\* t, err := findAccountType(client, account); if err != nil { return nil, err }
getRepositories_findAccountType ==
    /\ Running /\ pc = "findAccountType"
    /\ requests' = Append(requests, Request("profile", account, 0))
    /\ \E o \in Answers(Failures \cup ProfileTypes, {"User", "Organization"}) :
         /\ profile' = IF o \in ProfileTypes THEN o ELSE "none"
         /\ IF AccountKind(o) = ""
            THEN /\ pc' = "getRepositories_ret"
                 /\ repos' = <<>>
                 /\ err' = TRUE
                 /\ t' = t
            ELSE /\ pc' = "listPage"
                 /\ t' = AccountKind(o)
                 /\ UNCHANGED <<repos, err>>
    /\ UNCHANGED <<inputVars, proc, account, identityErr, page, grRepos,
                   responses, filterVars, taskVars, results, languages, out>>

\* What the server lists on page n.
PageOf(n) == IF n \in 1..Len(pages) THEN pages[n] ELSE <<>>

\* A listing loop that stops at the first page that is not full.
IsLastPage_short(data) == Len(data) < PerPage

\* if len(data) == 0 { break }
IsLastPage(data) == Len(data) = 0

\* A listing loop that puts each page in front of the earlier ones.
AppendPage_front(rs, data) == data \o rs

\* repos = append(repos, data...)
AppendPage(rs, data) == rs \o data

\* page++
NextPage(p) == p + 1

\* A getRepositories that returns what it has collected beside the error.
ReposOnError_partial(rs) == rs

\* return nil, err: what getRepositories returns beside the error, whatever it
\* has collected.
ReposOnError(rs) == <<>>

\* One turn of the loop, lines 144-167: request page `page`, decode it, close
\* the body; stop on an empty page, else append the items and go on.
getRepositories_page ==
    /\ Running /\ pc = "listPage"
    /\ requests' = Append(requests, Request("repos", t, page))
    /\ \E o \in Answers(Failures \cup {"ok"}, {"ok"}) :
         IF o # "ok"
         THEN /\ pc' = "getRepositories_ret"
              /\ repos' = ReposOnError(grRepos)
              /\ err' = TRUE
              /\ out' = [out EXCEPT !.notValid = @ \/ o = "request"]
              /\ UNCHANGED <<page, grRepos, responses>>
         ELSE LET data == PageOf(page)
              IN  /\ responses' = Append(responses, data)
                  /\ out' = out
                  /\ IF IsLastPage(data)
                     THEN /\ pc' = "getRepositories_ret"
                          /\ repos' = grRepos
                          /\ err' = FALSE
                          /\ UNCHANGED <<page, grRepos>>
                     ELSE /\ grRepos' = AppendPage(grRepos, data)
                          /\ page' = NextPage(page)
                          /\ UNCHANGED <<pc, repos, err>>
    /\ UNCHANGED <<inputVars, proc, account, identityErr, profile, t,
                   filterVars, taskVars, results, languages>>

\* repos, err := getRepositories(client, account); if err != nil { return }
main_getRepositories ==
    /\ Running /\ pc = "getRepositories_ret"
    /\ IF err
       THEN pc' = "return" /\ proc' = "returned"
       ELSE pc' = "filter" /\ proc' = proc
    /\ UNCHANGED <<inputVars, account, identityErr, requests, listVars, repos,
                   err, filterVars, taskVars, results, languages, out>>

\* ------------------------------------------------ the filter, lines 56-60
\* The filter values whose float64 product with 365 falls just below the whole
\* number |filterVal| * 365 / 100 (1.4 * 365 is 510.99999999999994): the only
\* ones among the hundredths up to 3.00.
Float64Short == {140, 280}

\* A conversion that rounds the product to the nearest whole number, halves
\* away from zero (math.Round).
IntOfProduct_round(fv) ==
    IF fv >= 0 THEN (fv * 365 + 50) \div 100 ELSE -((-fv * 365 + 50) \div 100)

\* int(filterVal * 365): the float64 product, truncated toward zero.
IntOfProduct(fv) ==
    LET exact == GoDiv(fv * 365, 100)
    IN  IF Abs(fv) \in Float64Short
        THEN (IF fv > 0 THEN exact - 1 ELSE exact + 1)
        ELSE exact

\* computeFilter's locals, lines 91-95.
computeFilter(fv) ==
    LET totalDays == IntOfProduct(fv)
        years == GoDiv(-totalDays, 365)
        remainingDays == GoMod(totalDays, 365)
        months == GoDiv(-remainingDays, 30)
        days == GoMod(-remainingDays, 30)
    IN  [called |-> TRUE, totalDays |-> totalDays, years |-> years,
         months |-> months, days |-> days]

\* A comparison that keeps a repository updated at the cutoff itself.
After_orEqual(u, f) == u >= f

\* repo.GetUpdatedAt().After(filter)
After(u, f) == u > f

RECURSIVE filterRepositories(_, _)
filterRepositories(rs, f) ==
    IF rs = <<>> THEN <<>>
    ELSE (IF After(Head(rs).updatedAt, f) THEN <<Head(rs)>> ELSE <<>>)
         \o filterRepositories(Tail(rs), f)

\* A main that filters whatever the value is.
FilterRequested_always(fv) == TRUE

\* filterVal != 0.0, lines 57 and 73
FilterRequested(fv) == fv # 0

\* if filterVal != 0.0 { filter = computeFilter(filterVal);
\*                       repos = filterRepositories(repos, filter) }
main_filter ==
    /\ Running /\ pc = "filter"
    /\ IF FilterRequested(filterVal)
       THEN LET c == computeFilter(filterVal)
                f == AddDate(now, c.years, c.months, c.days)
            IN  /\ cf' = c
                /\ filter' = f
                /\ repos' = filterRepositories(repos, f)
       ELSE UNCHANGED <<cf, filter, repos>>
    /\ pc' = "getLanguages"
    /\ UNCHANGED <<inputVars, proc, account, identityErr, requests, listVars,
                   err, taskVars, results, languages, out>>

\* ---------------------------------------------- getLanguages, lines 186-221
Tasks == 1..Len(tpc)

\* results := make(LanguagesList, 0, len(data)); var wg sync.WaitGroup
getLanguages_make ==
    /\ Running /\ pc = "getLanguages"
    /\ resArr' = [i \in 1..Len(repos) |-> LangE]
    /\ resLen' = 0
    /\ wg' = 0
    /\ spawned' = 0
    /\ tpc' = [i \in 1..Len(repos) |-> "idle"]
    /\ tdata' = [i \in 1..Len(repos) |-> LangE]
    /\ tlen' = [i \in 1..Len(repos) |-> 0]
    /\ pc' = "spawn"
    /\ UNCHANGED <<inputVars, proc, account, identityErr, requests, listVars,
                   repos, err, filterVars, results, languages, out>>

\* A loop that runs once more than there are repositories.
MoreToSpawn_inclusive(n, data) == n <= Len(data)

\* The range loop of line 191 has another iteration to make.
MoreToSpawn(n, data) == n < Len(data)

\* A loop that launches the goroutine without wg.Add(1).
getLanguages_go_noAdd ==
    /\ Running /\ pc = "spawn"
    /\ MoreToSpawn(spawned, repos)
    /\ spawned' = spawned + 1
    /\ tpc' = [tpc EXCEPT ![spawned + 1] = "request"]
    /\ UNCHANGED <<inputVars, pc, proc, account, identityErr, requests,
                   listVars, repos, err, filterVars, wg, tdata, tlen, resArr,
                   resLen, results, languages, out>>

\* for _, repo := range data { wg.Add(1); go func(repo) {...}(repo) }
getLanguages_go ==
    /\ Running /\ pc = "spawn"
    /\ MoreToSpawn(spawned, repos)
    /\ wg' = wg + 1
    /\ spawned' = spawned + 1
    /\ tpc' = [tpc EXCEPT ![spawned + 1] = "request"]
    /\ UNCHANGED <<inputVars, pc, proc, account, identityErr, requests,
                   listVars, repos, err, filterVars, tdata, tlen, resArr,
                   resLen, results, languages, out>>

\* The answers a languages request with the given fate can get.
FateAnswers(f) ==
    CASE f = "any" -> Failures \cup {"ok"}
      [] f = "ok" -> {"ok"}
      [] f = "fail" -> Failures
      [] OTHER -> {}

\* The goroutine's request, decode and close, lines 196-213: any of the three
\* failing leads to log.Fatal.
task_Request(i) ==
    /\ Running /\ tpc[i] = "request"
    /\ \E o \in FateAnswers(FateOf(repos[i].name)) :
         IF o = "ok"
         THEN /\ tdata' = [tdata EXCEPT ![i] = BreakdownOf(repos[i].name)]
              /\ tpc' = [tpc EXCEPT ![i] = "read"]
         ELSE /\ tpc' = [tpc EXCEPT ![i] = "fatal"]
              /\ tdata' = tdata
    /\ UNCHANGED <<inputVars, pc, proc, account, identityErr, requests,
                   listVars, repos, err, filterVars, spawned, wg, tlen, resArr,
                   resLen, results, languages, out>>

\* results = append(results, data), line 215, is not synchronised: the
\* goroutine reads the shared slice header, ...
task_Read(i) ==
    /\ Running /\ tpc[i] = "read"
    /\ tlen' = [tlen EXCEPT ![i] = resLen]
    /\ tpc' = [tpc EXCEPT ![i] = "write"]
    /\ UNCHANGED <<inputVars, pc, proc, account, identityErr, requests,
                   listVars, repos, err, filterVars, spawned, wg, tdata, resArr,
                   resLen, results, languages, out>>

\* The slot and the length append writes, given the length it read.
AppendArr(arr, n, d) == [arr EXCEPT ![n + 1] = d]

AppendLen(n) == n + 1

\* ... and stores the element after the length it read and the new header
\* (the capacity is len(data), so the array is never reallocated).
task_Write(i) ==
    /\ Running /\ tpc[i] = "write"
    /\ resArr' = AppendArr(resArr, tlen[i], tdata[i])
    /\ resLen' = AppendLen(tlen[i])
    /\ tpc' = [tpc EXCEPT ![i] = "return"]
    /\ UNCHANGED <<inputVars, pc, proc, account, identityErr, requests,
                   listVars, repos, err, filterVars, spawned, wg, tdata, tlen,
                   results, languages, out>>

\* A goroutine that returns without wg.Done().
task_Done_forgot(i) ==
    /\ Running /\ tpc[i] = "return"
    /\ tpc' = [tpc EXCEPT ![i] = "done"]
    /\ UNCHANGED <<inputVars, pc, proc, account, identityErr, requests,
                   listVars, repos, err, filterVars, spawned, wg, tdata, tlen,
                   resArr, resLen, results, languages, out>>

\* defer wg.Done()
task_Done(i) ==
    /\ Running /\ tpc[i] = "return"
    /\ wg' = wg - 1
    /\ tpc' = [tpc EXCEPT ![i] = "done"]
    /\ UNCHANGED <<inputVars, pc, proc, account, identityErr, requests,
                   listVars, repos, err, filterVars, spawned, tdata, tlen,
                   resArr, resLen, results, languages, out>>

\* A goroutine that logs the error and returns (log.Print for log.Fatal), so
\* that its deferred wg.Done runs.
task_Fatal_print(i) ==
    /\ Running /\ tpc[i] = "fatal"
    /\ out' = [out EXCEPT !.fatal = @ \cup {repos[i].name}]
    /\ tpc' = [tpc EXCEPT ![i] = "return"]
    /\ UNCHANGED <<inputVars, pc, proc, account, identityErr, requests,
                   listVars, repos, err, filterVars, spawned, wg, tdata, tlen,
                   resArr, resLen, results, languages>>

\* log.Fatal(err) writes the error ...
task_Fatal(i) ==
    /\ Running /\ tpc[i] = "fatal"
    /\ out' = [out EXCEPT !.fatal = @ \cup {repos[i].name}]
    /\ tpc' = [tpc EXCEPT ![i] = "exit"]
    /\ UNCHANGED <<inputVars, pc, proc, account, identityErr, requests,
                   listVars, repos, err, filterVars, spawned, wg, tdata, tlen,
                   resArr, resLen, results, languages>>

\* ... and calls os.Exit(1): the process ends, no deferred call runs.
task_Exit(i) ==
    /\ Running /\ tpc[i] = "exit"
    /\ proc' = "exited"
    /\ UNCHANGED <<inputVars, pc, account, identityErr, requests, listVars,
                   repos, err, filterVars, taskVars, results, languages, out>>

\* A join that does not wait.
WaitReturns_noWait(counter) == TRUE

\* wg.Wait() returns when the counter is zero.
WaitReturns(counter) == counter = 0

\* wg.Wait(); return results, nil
getLanguages_Wait ==
    /\ Running /\ pc = "spawn"
    /\ ~MoreToSpawn(spawned, repos)
    /\ WaitReturns(wg)
    /\ results' = SubSeq(resArr, 1, resLen)
    /\ err' = FALSE
    /\ pc' = "getLanguages_ret"
    /\ UNCHANGED <<inputVars, proc, account, identityErr, requests, listVars,
                   repos, filterVars, taskVars, languages, out>>

\* results, err := getLanguages(client, repos); if err != nil { return }
main_getLanguages ==
    /\ Running /\ pc = "getLanguages_ret"
    /\ IF err
       THEN pc' = "return" /\ proc' = "returned"
       ELSE pc' = "sumLanguages" /\ proc' = proc
    /\ UNCHANGED <<inputVars, account, identityErr, requests, listVars, repos,
                   err, filterVars, taskVars, results, languages, out>>

\* ------------------------------------------------ sumLanguages, lines 223-233
\* for lang, lines := range languages { results[lang] += lines }
AddLanguages(acc, m) ==
    [l \in DOMAIN acc \cup DOMAIN m |->
        (IF l \in DOMAIN acc THEN acc[l] ELSE 0) + (IF l \in DOMAIN m THEN m[l] ELSE 0)]

RECURSIVE SumInto(_, _)
SumInto(acc, list) ==
    IF list = <<>> THEN acc ELSE SumInto(AddLanguages(acc, Head(list)), Tail(list))

sumLanguages(list) == SumInto(LangE, list)

main_sumLanguages ==
    /\ Running /\ pc = "sumLanguages"
    /\ languages' = sumLanguages(results)
    /\ pc' = "printTable"
    /\ UNCHANGED <<inputVars, proc, account, identityErr, requests, listVars,
                   repos, err, filterVars, taskVars, results, out>>

\* -------------------------------------------------- printTable, lines 240-283
\* The orders in which a range over a map with the keys S can visit them.
Orders(S) ==
    {o \in [1..Cardinality(S) -> S] : \A i, j \in DOMAIN o : i # j => o[i] # o[j]}

\* func(i, j int) bool { return pairs[i].Value > pairs[j].Value }
Less(a, b) == a.Value > b.Value

\* sort.Slice on fewer than 12 elements is an insertion sort: each element
\* moves down while it is Less than the one before it.
RECURSIVE SiftDown(_, _)
SiftDown(s, j) ==
    IF j > 1 /\ Less(s[j], s[j - 1])
    THEN SiftDown([s EXCEPT ![j] = s[j - 1], ![j - 1] = s[j]], j - 1)
    ELSE s

RECURSIVE InsertionSort(_, _)
InsertionSort(s, i) ==
    IF i > Len(s) THEN s ELSE InsertionSort(SiftDown(s, i), i + 1)

SortSlice(s) == InsertionSort(s, 2)

\* A footer that holds the last row's count (sumLines = pair.Value).
TableOf_last(pairs) ==
    [rows |-> pairs,
     total |-> IF pairs = <<>> THEN 0 ELSE pairs[Len(pairs)].Value]

\* sumLines and the rows handed to the table writer, lines 275-281.
TableOf(pairs) ==
    [rows |-> pairs, total |-> SumSeq([i \in DOMAIN pairs |-> pairs[i].Value])]

main_printTable ==
    /\ Running /\ pc = "printTable"
    /\ \E o \in Orders(DOMAIN languages) :
         LET pairs == [i \in DOMAIN o |-> [Key |-> o[i], Value |-> languages[o[i]]]]
             tbl == TableOf(SortSlice(pairs))
         IN  out' = [out EXCEPT !.table = TRUE, !.rows = tbl.rows, !.total = tbl.total]
    /\ pc' = "summary"
    /\ UNCHANGED <<inputVars, proc, account, identityErr, requests, listVars,
                   repos, err, filterVars, taskVars, results, languages>>

\* The two Printf of lines 72-75, and main returns.
main_summary ==
    /\ Running /\ pc = "summary"
    /\ out' = [out EXCEPT !.summary = TRUE, !.count = Len(repos),
                          !.cutoff = FilterRequested(filterVal)]
    /\ pc' = "return"
    /\ proc' = "returned"
    /\ UNCHANGED <<inputVars, account, identityErr, requests, listVars, repos,
                   err, filterVars, taskVars, results, languages>>

\* ------------------------------------------------------------ the whole run
Next ==
    \/ main_getGitHubUsername
    \/ main_DefaultRESTClient
    \/ getRepositories_findAccountType
    \/ getRepositories_page
    \/ main_getRepositories
    \/ main_filter
    \/ getLanguages_make
    \/ getLanguages_go
    \/ \E i \in Tasks : task_Request(i)
    \/ \E i \in Tasks : task_Read(i)
    \/ \E i \in Tasks : task_Write(i)
    \/ \E i \in Tasks : task_Done(i)
    \/ \E i \in Tasks : task_Fatal(i)
    \/ \E i \in Tasks : task_Exit(i)
    \/ getLanguages_Wait
    \/ main_getLanguages
    \/ main_sumLanguages
    \/ main_printTable
    \/ main_summary

Spec == Init /\ [][Next]_vars

\* ----------------------------------------------- getRepositories on its own
ListInit ==
    /\ arg \in Accounts
    /\ filterVal = 100
    /\ now = Now0
    /\ \E s \in ListServers : pages = MakePages(s, now)
    /\ env = AnyEnv
    /\ Started /\ NoListing /\ NoFilter /\ NoTasks /\ NoTable
    /\ pc = "findAccountType"

ListNext == getRepositories_findAccountType \/ getRepositories_page

ListSpec == ListInit /\ [][ListNext]_vars


\* The state getRepositories leaves behind when the server lists rs on one
\* page: the profile request, the page and, unless it was empty, the empty
\* page after it.
Listed(rs) ==
    /\ pages = (IF rs = <<>> THEN <<>> ELSE <<rs>>)
    /\ profile = "User"
    /\ t = "users"
    /\ requests = <<Request("profile", account, 0), Request("repos", "users", 1)>>
                  \o (IF rs = <<>> THEN <<>> ELSE <<Request("repos", "users", 2)>>)
    /\ responses = (IF rs = <<>> THEN <<>> ELSE <<rs>>) \o << <<>> >>
    /\ page = (IF rs = <<>> THEN 1 ELSE 2)
    /\ grRepos = rs
    /\ repos = rs

\* ------------------------------------------- the filter step on its own
\* Last updates around the cutoffs of a year and of half a year.
UpdatedAts(c) ==
    {AddDate(c, -1, 0, 0), AddDate(c, 0, -6, -2), AddDate(c, 0, 0, -1),
     AddDate(c, -2, 0, 0)}

FilterInit ==
    /\ arg \in Accounts
    /\ filterVal \in (-MaxFilterVal)..MaxFilterVal
    /\ now \in Nows
    /\ env = AnyEnv
    /\ Started /\ NoFilter /\ NoTasks /\ NoTable
    /\ \E us \in SeqsUpTo(UpdatedAts(now), MaxFilterRepos) :
         Listed([i \in DOMAIN us |-> [name |-> i, updatedAt |-> us[i]]])
    /\ pc = "filter"

FilterNext == main_filter \/ getLanguages_make

FilterSpec == FilterInit /\ [][FilterNext]_vars

\* ----------------------------- sumLanguages and printTable on their own
TableInit ==
    /\ arg \in Accounts
    /\ filterVal = 0
    /\ now = Now0
    /\ env = AnyEnv
    /\ Started /\ NoFilter /\ NoTable
    /\ \E list \in SeqsUpTo(Breakdowns, MaxList) :
         /\ Listed([i \in DOMAIN list |-> Repository(i, now)])
         /\ results = list
         /\ resArr = list
         /\ resLen = Len(list)
         /\ tdata = list
         /\ tlen = [i \in DOMAIN list |-> i - 1]
         /\ tpc = [i \in DOMAIN list |-> "done"]
         /\ spawned = Len(list)
    /\ wg = 0
    /\ pc = "sumLanguages"

TableNext == main_sumLanguages \/ main_printTable \/ main_summary

TableSpec == TableInit /\ [][TableNext]_vars

\* ------------------------------- the whole run against answers fixed in advance
\* The account is given, nothing is filtered, the listing is one page of up to
\* MaxFixedRepos repositories followed by the empty page; the identity lookup,
\* the client, the profile and the listing succeed, and each repository's
\* languages request has its fate.
Fates == {"ok", "fail", "hang"}

FixedInit ==
    /\ arg \in Accounts
    /\ filterVal = 0
    /\ now = Now0
    /\ \E n \in 0..MaxFixedRepos :
         /\ pages = MakePages(IF n = 0 THEN <<>> ELSE <<n>>, now)
         /\ \E f \in [1..n -> Fates] : env = [seq |-> "ok", langs |-> f]
    /\ Started /\ NoListing /\ NoFilter /\ NoTasks /\ NoTable
    /\ pc = "getGitHubUsername"

FixedSpec == FixedInit /\ [][Next]_vars

\* The Go scheduler runs every goroutine that can run, and the program waits
\* on nothing but its requests and the join: a step that stays possible is
\* eventually taken.
FairSpec == FixedInit /\ [][Next]_vars /\ WF_vars(Next)

\* =================================================================== claims
Lookup(m, l) == IF l \in DOMAIN m THEN m[l] ELSE 0

ListRequests == SelectSeq(requests, LAMBDA r : r.kind = "repos")

PageSizes == [p \in DOMAIN pages |-> Len(pages[p])]

\* The first page on which the server lists nothing.
FirstEmpty ==
    CHOOSE k \in 1..(Len(pages) + 1) :
        PageOf(k) = <<>> /\ \A j \in 1..(k - 1) : PageOf(j) # <<>>

ListedOk == pc = "getRepositories_ret" /\ ~err

\* A listing request that was not answered by a decoded page.
PageFailed == Len(ListRequests) > Len(responses)

\* The profile was requested and gave no endpoint kind.
ProfileFailed == requests # <<>> /\ t = ""

\* A retrieval has failed: its goroutine is in log.Fatal, or the error is logged.
TaskFailed == out.fatal # {} \/ \E i \in Tasks : tpc[i] \in {"fatal", "exit"}

Summed == pc \in {"printTable", "summary"} \/ out.table

\* C1: when every retrieval succeeds, the aggregate that sumLanguages builds
\* from getLanguages' result holds, for every language, the sum of that
\* language's byte counts over all the repositories handed to getLanguages,
\* whatever the order in which the goroutines ran.
C1_AggregateIsSum ==
    Summed =>
        \A l \in Langs :
            Lookup(languages, l)
                = SumSeq([i \in DOMAIN repos |-> Lookup(BreakdownOf(repos[i].name), l)])

\* C2: the listing requests are for the pages 1, 2, 3, ... in order, each once,
\* none past the first empty page; a listing that ends has requested exactly
\* the pages up to the first empty one, and page sizes 100, 100, 37, 0 give 237
\* repositories in 4 requests.
C2_StopsAtFirstEmptyPage ==
    /\ \A i \in DOMAIN ListRequests : ListRequests[i].page = i
    /\ Len(ListRequests) <= FirstEmpty
    /\ ListedOk =>
         /\ Len(ListRequests) = FirstEmpty
         /\ Len(repos) = SumSeq(SubSeq(PageSizes, 1, FirstEmpty - 1))
    /\ (ListedOk /\ PageSizes = <<100, 100, 37, 0>>) =>
         /\ Len(ListRequests) = 4
         /\ Len(repos) = 237

C2_Witness ==
    /\ ListedOk
    /\ PageSizes = <<100, 100, 37, 0>>
    /\ Len(ListRequests) = 4

\* C3: when every page request succeeds, getRepositories returns the pages
\* before the first empty one, concatenated in page order and, within a page,
\* in the server's order: every repository listed there is returned exactly
\* once; while the loop runs, its list is the concatenation of the pages read.
C3_ConcatenationOfPages ==
    /\ pc = "listPage" => grRepos = Flatten(SubSeq(pages, 1, page - 1))
    /\ ListedOk =>
         /\ repos = Flatten(SubSeq(pages, 1, FirstEmpty - 1))
         /\ \A p \in 1..(FirstEmpty - 1) : \A i \in DOMAIN pages[p] :
              Cardinality({k \in DOMAIN repos : repos[k] = pages[p][i]}) = 1
         /\ \A j, k \in DOMAIN repos : j < k => repos[j].name < repos[k].name

C3_Witness == ListedOk /\ FirstEmpty = 3 /\ Len(repos) = 3

\* C4: once a listing page's request or decoding has failed, getRepositories
\* has returned an error and no repositories, the pages requested are exactly
\* those up to the failing one, and main starts no retrieval.
C4_PageFailureAborts ==
    PageFailed =>
        /\ err
        /\ repos = <<>>
        /\ Len(ListRequests) = page
        /\ Len(responses) = page - 1
        /\ pc \in {"getRepositories_ret", "return"}
        /\ tpc = <<>> /\ spawned = 0 /\ wg = 0
        /\ ~cf.called
        /\ ~out.table

C4_Witness == PageFailed /\ grRepos # <<>> /\ proc = "returned"

LangRank(l) == CHOOSE i \in 1..4 : <<"CSS", "Go", "HTML", "Shell">>[i] = l

RECURSIVE SumOver(_, _)
SumOver(m, S) ==
    IF S = {} THEN 0
    ELSE LET l == CHOOSE x \in S : TRUE IN m[l] + SumOver(m, S \ {l})

Row(k, v) == [Key |-> k, Value |-> v]

\* C6: the rows of the table are in descending order of byte count, and two
\* rows with the same byte count are in ascending order of language name.
C6_RowsSortedWithTieBreak ==
    out.table =>
        \A i, j \in DOMAIN out.rows :
            i < j =>
                \/ out.rows[i].Value > out.rows[j].Value
                \/ /\ out.rows[i].Value = out.rows[j].Value
                   /\ LangRank(out.rows[i].Key) < LangRank(out.rows[j].Key)

\* C7: the rows of the table are the aggregate's entries, one row per key and
\* no other row, and the footer is the sum of the aggregate's byte counts; the
\* aggregate Go 150, CSS 30, HTML 20 prints in that order with the total 200.
C7_RowsArePermutationAndTotal ==
    out.table =>
        /\ Len(out.rows) = Cardinality(DOMAIN languages)
        /\ \A l \in DOMAIN languages :
             Cardinality({i \in DOMAIN out.rows : out.rows[i] = Row(l, languages[l])}) = 1
        /\ out.total = SumOver(languages, DOMAIN languages)
        /\ results = <<LangA, LangB>> =>
             /\ out.rows = <<Row("Go", 150), Row("CSS", 30), Row("HTML", 20)>>
             /\ out.total = 200

C7_Witness ==
    /\ out.table
    /\ results = <<LangA, LangB>>
    /\ Len(out.rows) = 3
    /\ out.total = 200

\* C8: after the filter step with a nonzero filter value, main's repositories
\* are those of the listing whose last update is strictly after the cutoff,
\* each once and in the listing's order; one updated at the cutoff or before
\* it is not among them.
C8_KeepsStrictlyAfterCutoff ==
    cf.called =>
        /\ \A k \in DOMAIN repos :
             /\ repos[k].updatedAt > filter
             /\ \E i \in DOMAIN grRepos : grRepos[i] = repos[k]
        /\ \A i \in DOMAIN grRepos :
             Cardinality({k \in DOMAIN repos : repos[k] = grRepos[i]})
                 = IF grRepos[i].updatedAt > filter THEN 1 ELSE 0
        /\ \A j, k \in DOMAIN repos : j < k => repos[j].name < repos[k].name

C8_Witness ==
    /\ cf.called
    /\ Len(grRepos) = 2
    /\ grRepos[1].updatedAt = filter
    /\ grRepos[2].updatedAt > filter
    /\ Len(repos) = 1

PastFilter ==
    pc \in {"getLanguages", "spawn", "getLanguages_ret", "sumLanguages",
            "printTable", "summary"} \/ out.summary

\* C9: with the filter value 0, computeFilter is never called, the cutoff
\* stays the zero time, the repositories handed to getLanguages are the
\* listing as getRepositories returned it, and no cutoff line is printed.
C9_ZeroDisablesFilter ==
    filterVal = 0 =>
        /\ ~cf.called
        /\ filter = 0
        /\ PastFilter => repos = grRepos
        /\ pc = "spawn" => Len(tpc) = Len(grRepos)
        /\ ~out.cutoff

C9_Witness ==
    /\ filterVal = 0
    /\ out.summary
    /\ out.count = 3
    /\ \E i \in DOMAIN repos : repos[i].updatedAt <= AddDate(now, -1, 0, 0)

\* C10, as claimed: the whole number of days computeFilter uses is the filter
\* value times 365 rounded to a nearest whole number (either one when the
\* product lies halfway), here for the positive filter values.
C10_DaysAreRounded ==
    (cf.called /\ filterVal > 0) =>
        2 * Abs(100 * cf.totalDays - 365 * filterVal) <= 100

\* C10, amended: the whole number of days is the float64 product of the
\* filter value and 365 with its fraction dropped (truncated toward zero),
\* never rounded up; where that product falls just below a whole number it is
\* one less than the exact product.
C10_DaysAreTruncated ==
    cf.called =>
        LET d == cf.totalDays
            x == 365 * filterVal
        IN  /\ x >= 0 => d >= 0
            /\ x <= 0 => d <= 0
            /\ 100 * Abs(d) <= Abs(x)
            /\ \/ Abs(x) < 100 * (Abs(d) + 1)
               \/ Abs(filterVal) \in Float64Short /\ Abs(x) = 100 * (Abs(d) + 1)
            /\ filterVal = 10 => d = 36
            /\ filterVal = 30 => d = 109
            /\ filterVal = 50 => d = 182
            /\ filterVal = 70 => d = 255
            /\ filterVal = 75 => d = 273
            /\ filterVal = 100 => d = 365
            /\ filterVal = 150 => d = 547

C10_Witness == cf.called /\ filterVal = 75 /\ cf.totalDays = 273

\* C11: when the first listing page is empty, getLanguages launches no
\* goroutine, its wg.Wait() can return as soon as it is reached, the table has
\* no language row and the total 0, and the summary line that follows it
\* reports 0 repositories.
C11_NoRepositoriesEmptyTable ==
    FirstEmpty = 1 =>
        /\ tpc = <<>> /\ spawned = 0 /\ wg = 0 /\ out.fatal = {}
        /\ (Running /\ pc = "spawn") => ENABLED getLanguages_Wait
        /\ out.table => out.rows = <<>> /\ out.total = 0
        /\ out.summary => out.table /\ out.count = 0

C11_Witness ==
    /\ FirstEmpty = 1
    /\ out.table /\ out.rows = <<>> /\ out.total = 0
    /\ out.summary /\ out.count = 0
    /\ proc = "returned"

\* The profile was fetched, decoded and closed.
ProfileFetched == profile # "none"

\* C12 as stated: every fetched profile is classified, "orgs" when its declared
\* type is "Organization" and "users" for every other declared type, and
\* findAccountType never fails on a fetched profile.
C12_EveryProfileClassified ==
    ProfileFetched =>
        /\ t = (IF profile = "Organization" THEN "orgs" ELSE "users")
        /\ ListRequests = <<>> => ~err

\* C12, amended: a fetched profile is classified "users" when its declared
\* type is "User" and "orgs" when it is "Organization", and the lookup then
\* has not failed; for every other declared type findAccountType fails with no
\* endpoint kind, getRepositories returns that error with no repository and
\* no listing request is issued.
C12_OnlyKnownTypesClassified ==
    ProfileFetched =>
        /\ profile = "User" => t = "users"
        /\ profile = "Organization" => t = "orgs"
        /\ profile \in {"User", "Organization"} /\ pc = "listPage" => ~err
        /\ profile \notin {"User", "Organization"} =>
               /\ t = "" /\ err
               /\ repos = <<>> /\ grRepos = <<>>
               /\ ListRequests = <<>>
               /\ pc \in {"getRepositories_ret", "return"}

C12_Witness ==
    /\ profile = "Bot" /\ t = "" /\ err
    /\ ListRequests = <<>>
    /\ proc = "returned"

\* C13: when no account name is given and the identity lookup fails, the run
\* is aborted there: no profile request and no listing request is issued, no
\* languages retrieval is launched and no table is printed.
C13_NoIdentityAborts ==
    identityErr =>
        /\ requests = <<>>
        /\ tpc = <<>>
        /\ ~out.table

\* A goroutine that has read the shared results at line 215 and not yet stored
\* its append.
Appending(i) == tpc[i] = "write"

\* C14: the appends to the shared results are mutually exclusive: two
\* goroutines are never both between their read of results and their write.
C14_AppendsMutuallyExclusive ==
    \A i, j \in Tasks : Appending(i) /\ Appending(j) => i = j

\* A goroutine that is launched and has neither finished nor ended the process.
TaskRunning(i) == tpc[i] \in {"request", "read", "write", "return", "fatal"}

\* C15: a failed retrieval is handed to getLanguages' return as an error
\* value: a goroutine whose retrieval failed finishes like the others, and
\* the process is never ended from inside a goroutine while another goroutine
\* is still running.
C15_FailureReturnedAtJoin ==
    /\ proc = "exited" => \A j \in Tasks : ~TaskRunning(j)
    /\ (pc = "getLanguages_ret" /\ out.fatal # {}) => err

\* The repositories whose languages request is fixed to fail.
Failing == {n \in DOMAIN env.langs : env.langs[n] = "fail"}

\* The answers are fixed, and exactly one repository's retrieval fails while
\* every other one succeeds.
ExactlyOneFails ==
    /\ env.seq = "ok"
    /\ Cardinality(Failing) = 1
    /\ \A n \in DOMAIN env.langs : env.langs[n] \in {"ok", "fail"}

\* What such a run shows: the failing repository's error, logged, and nothing
\* else.
OneFailureOutcome == [NoOut EXCEPT !.fatal = Failing]

\* C16: with the answers fixed so that exactly one repository's retrieval
\* fails, every interleaving of the goroutines ends the same way for the user:
\* the run cannot stop before it has ended, it ends by the exit of the process,
\* and what it has shown is then the error of the failing repository and no
\* table; before that it has shown nothing or just that error.
C16_OneFailureOneOutcome ==
    ExactlyOneFails =>
        IF Running
        THEN ENABLED Next /\ out \in {NoOut, OneFailureOutcome}
        ELSE proc = "exited" /\ out = OneFailureOutcome

C16_Witness ==
    /\ ExactlyOneFails
    /\ proc = "exited" /\ out = OneFailureOutcome
    /\ \E i, j \in Tasks : tpc[i] = "exit" /\ tpc[j] = "done" /\ resLen = 1

\* getLanguages has returned to main.
Joined ==
    pc \in {"getLanguages_ret", "sumLanguages", "printTable", "summary"} \/ out.table

\* The goroutines launched and not finished.
Unfinished == {i \in Tasks : tpc[i] \notin {"idle", "done"}}

\* C17: getLanguages launches one goroutine per repository, in the order of
\* the list, and counts in wg those that have not finished; once it has
\* returned every repository's goroutine was launched and has finished, so
\* that none runs afterwards; and while a launched goroutine has not finished
\* main is still in getLanguages: neither sumLanguages nor printTable has begun.
C17_FanOutJoinBarrier ==
    /\ spawned <= Len(repos)
    /\ pc = "spawn" \/ Joined => Len(tpc) = Len(repos)
    /\ \A i \in Tasks : tpc[i] # "idle" <=> i <= spawned
    /\ wg = Cardinality(Unfinished)
    /\ Joined => spawned = Len(repos) /\ \A i \in Tasks : tpc[i] = "done"
    /\ Unfinished # {} => pc = "spawn" /\ languages = LangE /\ ~out.table

C17_Witness ==
    /\ pc = "sumLanguages"
    /\ Len(repos) = 2 /\ spawned = 2
    /\ \A i \in Tasks : tpc[i] = "done"

\* The repositories whose languages request is fixed never to complete.
Hanging == {n \in DOMAIN env.langs : env.langs[n] = "hang"}

\* Every request of the run is fixed to complete successfully.
AllSucceed == env.seq = "ok" /\ Failing = {} /\ Hanging = {}

\* main is blocked in wg.Wait(): every goroutine is launched, one has not
\* finished, and neither the table nor an error has been shown.
BlockedAtJoin ==
    /\ Running /\ pc = "spawn"
    /\ spawned = Len(repos) /\ wg > 0
    /\ out = NoOut

\* C18: under fair scheduling, with a listing that ends by an empty page, the
\* run renders the report exactly when every request it issues completes
\* successfully: it then always ends having printed the table and the summary;
\* otherwise the table is never printed; and, nothing being timed out or
\* cancelled, when a retrieval never completes and none fails the run comes to
\* be blocked in wg.Wait() and stays so forever.
C18_ReportIffAllComplete ==
    /\ AllSucceed => <>(proc = "returned" /\ out.table /\ out.summary)
    /\ ~AllSucceed => [](~out.table)
    /\ (Hanging # {} /\ Failing = {}) => <>[]BlockedAtJoin

C18_Witness ==
    /\ Cardinality(Hanging) = 1 /\ Failing = {}
    /\ BlockedAtJoin /\ wg = 1
    /\ \E i \in Tasks : tpc[i] = "done"
    /\ ~ENABLED Next

\* C19: for every positive whole number of days d that computeFilter uses,
\* the cutoff is the clock with Y = d div 365 years, M = (d mod 365) div 30
\* months and D = (d mod 365) mod 30 days subtracted, where
\* Y * 365 + M * 30 + D = d and 0 <= D < 30; the filter value 0.5 gives
\* 182 days, subtracted as 0 years, 6 months and 2 days, and 1 gives 365 days,
\* subtracted as 1 year, 0 months and 0 days.
C19_DaysSplitIntoYearsMonthsDays ==
    cf.called /\ cf.totalDays > 0 =>
        LET d == cf.totalDays
            Y == d \div 365
            M == (d % 365) \div 30
            D == (d % 365) % 30
        IN  /\ cf.years = -Y /\ cf.months = -M /\ cf.days = -D
            /\ Y * 365 + M * 30 + D = d
            /\ 0 <= D /\ D < 30
            /\ filter = AddDate(now, -Y, -M, -D)
            /\ filterVal = 50 => d = 182 /\ Y = 0 /\ M = 6 /\ D = 2
            /\ filterVal = 100 => d = 365 /\ Y = 1 /\ M = 0 /\ D = 0

C19_Witness ==
    /\ cf.called /\ filterVal = 50 /\ cf.totalDays = 182
    /\ cf.years = 0 /\ cf.months = -6 /\ cf.days = -2
    /\ filter = AddDate(now, 0, -6, -2)

\* The profile lookup was made and gave an error: the request, the decoding or
\* the close failed, or the declared type is not a known one.
LookupFailed == requests # <<>> /\ profile \notin {"User", "Organization"}

\* C20: the profile request is the first request of the run and is made once,
\* so that every listing request comes after it; when the lookup fails,
\* getRepositories returns the error with no repository, no listing request
\* is issued and the lookup is not made again.
C20_LookupBeforeListing ==
    /\ requests # <<>> => requests[1].kind = "profile"
    /\ \A i \in DOMAIN requests : i > 1 => requests[i].kind = "repos"
    /\ ListRequests # <<>> => t \in {"users", "orgs"}
    /\ LookupFailed =>
           /\ Len(requests) = 1
           /\ t = "" /\ err /\ repos = <<>>
           /\ pc \in {"getRepositories_ret", "return"}

C20_Witness ==
    /\ LookupFailed /\ profile = "none"
    /\ Len(requests) = 1 /\ err
    /\ proc = "returned"

\* C21: after sumLanguages the aggregate has a key for a language exactly
\* when some breakdown of the list reports a positive byte count for it: a
\* language reported only with the count 0 has no entry.
C21_KeyIffPositiveCount ==
    Summed =>
        \A l \in Langs :
            l \in DOMAIN languages <=>
                \E i \in DOMAIN results : Lookup(results[i], l) > 0

=============================================================================
